---- MODULE Spec2Model ----
(***************************************************************************)
(* A model of proj2_nps.py: the JSON file cache (open_cache, save_cache),  *)
(* the cache-aware page fetch (make_request_with_cache), the places lookup *)
(* (get_nearby_places), the page extraction (get_site_instance,            *)
(* get_sites_for_state) and the end of the main program.                   *)
(*                                                                         *)
(* A dict is a function whose domain is its key set.  A key is a pair:     *)
(* <<"url", i>> for a page URL, <<"zip", i>> for a postal code.            *)
(***************************************************************************)
EXTENDS Integers, Sequences, FiniteSets, TLC

VARIABLES
    file,        \* the dict held by nps_cache.json (CACHE_FILENAME)
    intact,      \* FALSE while the file is truncated or holds invalid JSON
    CACHE_DICT,  \* the module-level dict of the running process (line 13)
    upstream,    \* what each resource serves now: key -> body
    ret,         \* the outcome of the last call of the program
    stored,      \* key -> every body the file has ever held under that key
    procs        \* per process: position, argument and locals (concurrent runs)

vars == <<file, intact, CACHE_DICT, upstream, ret, stored, procs>>

\* ------------------------------------------------------------------ bounds
NumUrls == 2
NumZips == 1
MaxVersions == 2
NumProcs == 2
MaxParks == 2

\* ------------------------------------------------------------------ data
Urls == {<<"url", i>> : i \in 1..NumUrls}
Zips == {<<"zip", i>> : i \in 1..NumZips}
Versions == 1..MaxVersions

NoValue == [kind |-> "none"]
\* The body a server sends with a non-2xx status, as markup and as JSON.
ErrorPage == [kind |-> "errorpage"]
ErrorJson == [kind |-> "errorjson"]
Page(k, v) == [kind |-> "page", key |-> k, version |-> v]
Json(k, v) == [kind |-> "json", key |-> k, version |-> v]

\* How the network answers one GET.
Outcomes == {"ok", "http_error", "http_error_json", "unreachable"}

EmptyDict == [k \in {} |-> NoValue]
Put(d, k, v) == [x \in (DOMAIN d) \cup {k} |-> IF x = k THEN v ELSE d[x]]

\* ------------------------------------------------------------------ cache file
\* open_cache: the file's dict, or {} when it is missing, unreadable or not JSON.
open_cache(f, ok) == IF ok THEN f ELSE EmptyDict

\* A save that first merges what the file holds now into the dict.
dumped_json_cache_merged(cache_dict) ==
    [k \in (DOMAIN cache_dict) \cup (DOMAIN open_cache(file, intact)) |->
        IF k \in DOMAIN cache_dict THEN cache_dict[k] ELSE file[k]]

\* Line 52: json.dumps(cache_dict), the text written to the file.
dumped_json_cache(cache_dict) == cache_dict

\* save_cache: the file holds exactly the dict it is given.
save_cache(cache_dict) == dumped_json_cache(cache_dict)

\* ------------------------------------------------------------------ network
\* requests.get: raises when the server cannot be reached; any response,
\* 2xx or not, is returned with its status and body (no raise_for_status).
requests_get(k, outcome, up) ==
    CASE outcome = "unreachable" -> [raised |-> TRUE, status |-> 0, body |-> NoValue]
      [] outcome = "ok" -> [raised |-> FALSE, status |-> 200, body |-> up[k]]
      [] outcome = "http_error" -> [raised |-> FALSE, status |-> 404, body |-> ErrorPage]
      [] outcome = "http_error_json" -> [raised |-> FALSE, status |-> 403, body |-> ErrorJson]

\* response.json(): decodes a JSON body, raises on any other body.
IsJson(body) == body.kind \in {"json", "errorjson"}

Returned(v, f, g) == [raised |-> FALSE, value |-> v, file |-> f, gets |-> g]
Raised(f, g) == [raised |-> TRUE, value |-> NoValue, file |-> f, gets |-> g]

\* A fetch that forgets line 82: the miss is returned and never saved.
make_request_with_cache_unsaved(f, ok, baseurl, outcome, up) ==
    LET local_dict == open_cache(f, ok)
        response == requests_get(baseurl, outcome, up)
    IN  IF baseurl \in DOMAIN local_dict
        THEN Returned(local_dict[baseurl], f, 0)
        ELSE IF response.raised
             THEN Raised(f, 1)
             ELSE Returned(response.body, f, 1)

\* make_request_with_cache(baseurl) run on file f: the value returned or the
\* exception raised, the file afterwards, and the GETs issued.  Line 73 binds
\* a LOCAL name CACHE_DICT (the function has no global statement): the
\* module-level CACHE_DICT is neither read nor written here.
make_request_with_cache(f, ok, baseurl, outcome, up) ==
    LET local_dict == open_cache(f, ok)
        response == requests_get(baseurl, outcome, up)
        new_dict == Put(local_dict, baseurl, response.body)
    IN  IF baseurl \in DOMAIN local_dict
        THEN Returned(local_dict[baseurl], f, 0)
        ELSE IF response.raised
             THEN Raised(f, 1)
             ELSE Returned(new_dict[baseurl], save_cache(new_dict), 1)

\* make_request(baseurl, params): one GET, then response.json().
make_request(k, outcome, up) ==
    LET response == requests_get(k, outcome, up)
    IN  IF response.raised \/ ~IsJson(response.body)
        THEN [raised |-> TRUE, value |-> NoValue]
        ELSE [raised |-> FALSE, value |-> response.body]

\* get_nearby_places(site_object) with unique_key = site_object.zipcode, run
\* on the module-level dict g: result, the dict and the file afterwards.
get_nearby_places(g, f, unique_key, outcome, up) ==
    LET answer == make_request(unique_key, outcome, up)
        new_dict == Put(g, unique_key, answer.value)
    IN  IF unique_key \in DOMAIN g
        THEN [res |-> Returned(g[unique_key], f, 0), dict |-> g]
        ELSE IF answer.raised
             THEN [res |-> Raised(f, 1), dict |-> g]
             ELSE [res |-> Returned(new_dict[unique_key], save_cache(new_dict), 1),
                   dict |-> new_dict]

\* ------------------------------------------------------------------ state
Call(op, key, r) ==
    [op |-> op, key |-> key, raised |-> r.raised, value |-> r.value, gets |-> r.gets]

NoCall == [op |-> "none", key |-> <<"none", 0>>, raised |-> FALSE,
           value |-> NoValue, gets |-> 0]

\* Every body the file has held under each key, after the file became f.
Record(st, f) ==
    [k \in DOMAIN st |-> IF k \in DOMAIN f THEN st[k] \cup {f[k]} ELSE st[k]]

NoProcs == [p \in {} |-> NoValue]

Init ==
    /\ file = EmptyDict
    /\ intact = TRUE
    /\ CACHE_DICT = EmptyDict
    /\ upstream = [k \in Urls \cup Zips |->
                     IF k \in Urls THEN Page(k, 1) ELSE Json(k, 1)]
    /\ ret = NoCall
    /\ stored = [k \in Urls \cup Zips |-> {}]
    /\ procs = NoProcs

\* A call of make_request_with_cache(baseurl).
CallMakeRequestWithCache(baseurl, outcome) ==
    LET r == make_request_with_cache(file, intact, baseurl, outcome, upstream)
    IN  /\ file' = r.file
        /\ ret' = Call("make_request_with_cache", baseurl, r)
        /\ intact' = (intact \/ (r.gets = 1 /\ ~r.raised))
        /\ UNCHANGED <<CACHE_DICT, upstream, procs>>

\* A call of get_nearby_places(site) for a site whose zipcode is unique_key.
CallGetNearbyPlaces(unique_key, outcome) ==
    LET n == get_nearby_places(CACHE_DICT, file, unique_key, outcome, upstream)
    IN  /\ file' = n.res.file
        /\ CACHE_DICT' = n.dict
        /\ ret' = Call("get_nearby_places", unique_key, n.res)
        /\ intact' = (intact \/ (n.res.gets = 1 /\ ~n.res.raised))
        /\ UNCHANGED <<upstream, procs>>

\* The main loop is left with "exit" at the state prompt: line 319 saves the
\* module-level dict and the process ends.  The next run starts with the
\* module-level dict of line 13.
ExitRun ==
    /\ file' = save_cache(CACHE_DICT)
    /\ intact' = TRUE
    /\ CACHE_DICT' = EmptyDict
    /\ ret' = [NoCall EXCEPT !.op = "save_cache"]
    /\ UNCHANGED <<upstream, procs>>

\* The process ends without line 319: quit() at the site prompt (line 289)
\* or an exception nobody catches.  The next run starts afresh.
QuitRun ==
    /\ CACHE_DICT' = EmptyDict
    /\ ret' = [NoCall EXCEPT !.op = "quit"]
    /\ UNCHANGED <<file, intact, upstream, procs>>

\* The resources change upstream: each serves its next version from now on.
UpstreamChange ==
    /\ \A k \in DOMAIN upstream : upstream[k].version < MaxVersions
    /\ upstream' = [k \in DOMAIN upstream |->
                      [upstream[k] EXCEPT !.version = @ + 1]]
    /\ UNCHANGED <<file, intact, CACHE_DICT, ret, procs>>

\* The history of the file's contents, kept or not.
Keep == stored' = Record(stored, open_cache(file', intact'))
Skip == UNCHANGED stored

\* The cache operations of one process at a time, run after run.
Next ==
    \/ \E u \in Urls, o \in Outcomes : CallMakeRequestWithCache(u, o) /\ Skip
    \/ \E z \in Zips, o \in Outcomes : CallGetNearbyPlaces(z, o) /\ Skip
    \/ ExitRun /\ Skip
    \/ QuitRun /\ Skip
    \/ UpstreamChange /\ Skip

Spec == Init /\ [][Next]_vars

\* The same runs, with the history of the file's contents kept.
NextLife ==
    \/ \E u \in Urls, o \in Outcomes : CallMakeRequestWithCache(u, o) /\ Keep
    \/ \E z \in Zips, o \in Outcomes : CallGetNearbyPlaces(z, o) /\ Keep
    \/ ExitRun /\ Keep
    \/ QuitRun /\ Keep
    \/ UpstreamChange /\ Keep

SpecLife == Init /\ [][NextLife]_vars

\* ------------------------------------------------------------------ claims on the cache

InStore(k) == k \in DOMAIN open_cache(file, intact) \/ k \in DOMAIN CACHE_DICT

\* C1: in a single-process run no operation removes a key from the backing
\* file: every key of the file before a step is a key of it afterwards.
C1_StoreNeverShrinks ==
    [][(DOMAIN file) \subseteq (DOMAIN file')]_vars

\* C2: every key has held at most one value in the backing file over the
\* file's whole life, whatever was fetched, looked up or saved.
C2_OneValuePerKey ==
    \A k \in Urls \cup Zips : Cardinality(stored[k]) <= 1

C4_NearbyUsesStore ==
    [][\A z \in Zips, o \in Outcomes :
          CallGetNearbyPlaces(z, o) =>
             /\ InStore(z) => ret'.gets = 0 /\ ~ret'.raised
             /\ z \in DOMAIN file => ret'.value = file[z]
             /\ ~InStore(z) =>
                   /\ ret'.gets = 1
                   /\ ~ret'.raised => z \in DOMAIN file' /\ file'[z] = ret'.value]_vars

\* C5: on a miss, make_request_with_cache returns nothing and raises whenever
\* the server is unreachable or answers with a status outside 2xx.
C5_TransportFailureIsFatal ==
    [][\A u \in Urls, o \in Outcomes :
          (/\ CallMakeRequestWithCache(u, o)
           /\ u \notin DOMAIN open_cache(file, intact)
           /\ (requests_get(u, o, upstream).raised
               \/ requests_get(u, o, upstream).status \notin 200..299))
          => ret'.raised /\ ret'.value = NoValue]_vars

\* C10: a miss whose retrieval fails (server unreachable, or a status outside
\* 2xx), in make_request_with_cache or in get_nearby_places, leaves the
\* module-level dict and the backing file as they were.
C10_FailedMissLeavesStore ==
    [][\A k \in Urls \cup Zips, o \in Outcomes :
          (/\ \/ k \in Urls /\ CallMakeRequestWithCache(k, o)
                            /\ k \notin DOMAIN open_cache(file, intact)
              \/ k \in Zips /\ CallGetNearbyPlaces(k, o)
                            /\ k \notin DOMAIN CACHE_DICT
           /\ (requests_get(k, o, upstream).raised
               \/ requests_get(k, o, upstream).status \notin 200..299))
          => file' = file /\ CACHE_DICT' = CACHE_DICT]_vars

\* ------------------------------------------------------------------ detail pages
\* A text is a sequence of tokens; " " is white space.  A marker is an element
\* found by class or itemprop: present or not, with its text.
None == [present |-> FALSE, text |-> <<>>]
Marker(t) == [present |-> TRUE, text |-> t]

RECURSIVE lstrip(_)
lstrip(t) == IF t # <<>> /\ Head(t) = " " THEN lstrip(Tail(t)) ELSE t
RECURSIVE rstrip(_)
rstrip(t) == IF t # <<>> /\ t[Len(t)] = " " THEN rstrip(SubSeq(t, 1, Len(t) - 1)) ELSE t
\* str.strip()
strip(t) == rstrip(lstrip(t))

\* The texts a marker of a field may hold: blank, or the field's word padded.
Texts(field) == {<<" ">>, <<" ", field, " ">>}
Markers(field) == {None} \cup {Marker(t) : t \in Texts(field)}

\* The markup of a detail page: the header block ('Hero-titleContainer
\* clearfix') with the designation and the title in it, and the contact block
\* ('vcard') with locality, region, postal code and telephone in it.
DetailPage(k, h, d, t, c, l, r, z, p) ==
    [kind |-> "detail", key |-> k, header |-> h, designation |-> d, title |-> t,
     vcard |-> c, locality |-> l, region |-> r, postal |-> z, tel |-> p]

DetailPages(k) ==
    {DetailPage(k, FALSE, None, None, c, l, r, z, p) :
        c \in {FALSE}, l \in {None}, r \in {None}, z \in {None}, p \in {None}}
    \cup
    {DetailPage(k, TRUE, d, t, FALSE, None, None, None, None) :
        d \in Markers("Hero-designation"), t \in Markers("Hero-title")}
    \cup
    {DetailPage(k, FALSE, None, None, TRUE, l, r, z, p) :
        l \in Markers("addressLocality"), r \in Markers("addressRegion"),
        z \in Markers("postal-code"), p \in Markers("tel")}
    \cup
    UNION {{DetailPage(k, TRUE, d, t, TRUE, l, r, z, p) :
        l \in Markers("addressLocality"), r \in Markers("addressRegion"),
        z \in Markers("postal-code"), p \in Markers("tel")} :
        d \in Markers("Hero-designation"), t \in Markers("Hero-title")}

\* soup.find(class_=block).find(marker) on the parsed html: None when the
\* html is no detail page, or the block or the marker is not in it.
Find(html, block, marker) ==
    IF html.kind = "detail" /\ html[block] THEN html[marker] ELSE None

\* x.text.strip() and x.text: AttributeError when x is None.
Text(x) == IF x.present THEN [raised |-> FALSE, text |-> x.text]
           ELSE [raised |-> TRUE, text |-> <<>>]
Stripped(x) == IF x.present THEN [raised |-> FALSE, text |-> strip(x.text)]
               ELSE [raised |-> TRUE, text |-> <<>>]

\* Lines 185-188 without the try: a missing designation raises.
category_unguarded(html) == Stripped(Find(html, "header", "designation"))

\* Lines 185-188: the category, "No category" on any exception.
category_of(html) ==
    LET c == Stripped(Find(html, "header", "designation"))
    IN  IF c.raised THEN [raised |-> FALSE, text |-> <<"No category">>] ELSE c

\* Line 193 with a default: a missing telephone gives the empty string.
phone_defaulted(html) ==
    LET t == Stripped(Find(html, "vcard", "tel"))
    IN  IF t.raised THEN [raised |-> FALSE, text |-> <<>>] ELSE t

\* Line 193: the telephone.
phone_of(html) == Stripped(Find(html, "vcard", "tel"))

NationalSite(category, name, address, zipcode, phone) ==
    [kind |-> "site", category |-> category, name |-> name, address |-> address,
     zipcode |-> zipcode, phone |-> phone]

\* get_site_instance(site_url) run on file f.
get_site_instance(f, ok, site_url, outcome, up) ==
    LET r == make_request_with_cache(f, ok, site_url, outcome, up)
        html == r.value
        category == category_of(html)
        name == Stripped(Find(html, "header", "title"))
        locality == Text(Find(html, "vcard", "locality"))
        region == Text(Find(html, "vcard", "region"))
        zipcode == Stripped(Find(html, "vcard", "postal"))
        phone == phone_of(html)
    IN  IF r.raised THEN r
        ELSE IF \/ category.raised \/ name.raised \/ locality.raised
                \/ region.raised \/ zipcode.raised \/ phone.raised
        THEN Raised(r.file, r.gets)
        ELSE Returned(NationalSite(category.text, name.text,
                                   locality.text \o <<", ">> \o region.text,
                                   zipcode.text, phone.text),
                      r.file, r.gets)

\* The detail page the extraction is run on.
DetailUrl == <<"url", 1>>

InitSite ==
    /\ file = EmptyDict
    /\ intact = TRUE
    /\ CACHE_DICT = EmptyDict
    /\ upstream \in [{DetailUrl} -> DetailPages(DetailUrl)]
    /\ ret = NoCall
    /\ stored = [k \in {DetailUrl} |-> {}]
    /\ procs = NoProcs

\* A call of get_site_instance(site_url).
CallGetSiteInstance(site_url, outcome) ==
    LET r == get_site_instance(file, intact, site_url, outcome, upstream)
    IN  /\ file' = r.file
        /\ ret' = Call("get_site_instance", site_url, r)
        /\ intact' = (intact \/ r.file # file)
        /\ UNCHANGED <<CACHE_DICT, upstream, stored, procs>>

NextSite ==
    \E o \in Outcomes : CallGetSiteInstance(DetailUrl, o)

SpecSite == InitSite /\ [][NextSite]_vars

\* The html of the last get_site_instance call, when its fetch returned one.
Fetched == ret.op = "get_site_instance" /\ ret.key \in DOMAIN file
Has(block, marker) == Find(file[ret.key], block, marker).present
HasAddressAndName ==
    /\ Has("header", "title") /\ Has("vcard", "locality")
    /\ Has("vcard", "region") /\ Has("vcard", "postal")

\* C6 (as stated): with name, locality, region and postal code present and
\* the category marker absent, get_site_instance returns a site of category
\* "No category"; with any of those four absent it raises and returns nothing.
C6_CategorySoftOthersHard ==
    Fetched =>
       /\ (HasAddressAndName /\ ~Has("header", "designation")) =>
             ~ret.raised /\ ret.value.category = <<"No category">>
       /\ ~HasAddressAndName => ret.raised /\ ret.value = NoValue

\* C6 (amended): the telephone is required like the other four: with name,
\* locality, region, postal code and telephone present and the category
\* marker absent, get_site_instance returns a site of category "No
\* category"; with any of the five absent it raises and returns nothing,
\* category or not.
C6_CategorySoftFiveHard ==
    Fetched =>
       /\ (HasAddressAndName /\ Has("vcard", "tel") /\ ~Has("header", "designation")) =>
             ~ret.raised /\ ret.value.category = <<"No category">>
       /\ ~(HasAddressAndName /\ Has("vcard", "tel")) =>
             ret.raised /\ ret.value = NoValue

\* A site was returned for a page without a category marker.
C6_Witness ==
    /\ Fetched /\ ~Has("header", "designation")
    /\ ~ret.raised /\ ret.value.category = <<"No category">>

\* C7 (as stated): with name, locality, region and postal code present and no
\* telephone marker, get_site_instance returns a site whose phone is empty.
C7_PhoneOptional ==
    (Fetched /\ HasAddressAndName /\ ~Has("vcard", "tel")) =>
        ~ret.raised /\ ret.value.phone = <<>>

\* C7 (amended): with name, locality, region and postal code present and no
\* telephone marker, get_site_instance raises and returns no site; the phone
\* of a returned site is empty only when the telephone marker is there and
\* its text is blank.
C7_PhoneRequired ==
    /\ (Fetched /\ HasAddressAndName /\ ~Has("vcard", "tel")) =>
          ret.raised /\ ret.value = NoValue
    /\ (Fetched /\ ~ret.raised) =>
          /\ Has("vcard", "tel")
          /\ ret.value.phone = <<>> <=> file[ret.key].tel.text \in {<<>>, <<" ">>}

\* The extraction raised on a page that lacks nothing but the telephone.
C7_Witness ==
    /\ Fetched /\ HasAddressAndName /\ ~Has("vcard", "tel")
    /\ ret.raised

\* ------------------------------------------------------------------ state pages
StateUrl == <<"state", 1>>
\* An h3 of the listing: the href of its anchor, 0 when it has none.
NoAnchor == 0
Hrefs == 1..MaxParks
\* BASEURL + park_href + 'index.htm'
park_url(park_href) == <<"url", park_href>>
ParkUrls == {park_url(h) : h \in Hrefs}

SiteNames == <<"Isle Royale", "Keweenaw", "Pictured Rocks", "River Raisin",
               "Sleeping Bear Dunes", "North Country">>

\* The markup of a state page: whether it has the 'list_parks' element, and
\* the h3 elements in it, in document order.
ListingPage(k, l, parks) ==
    [kind |-> "listing", key |-> k, list_parks |-> l, parks |-> parks]

SeqsUpTo(S, n) == UNION {[1..m -> S] : m \in 0..n}

ListingPages(k) ==
    {ListingPage(k, FALSE, <<>>)}
    \cup {ListingPage(k, TRUE, parks) :
             parks \in SeqsUpTo(Hrefs \cup {NoAnchor}, MaxParks)}

\* The detail pages a park may serve here: a full one, one without the
\* designation, one without the postal code.
ParkPages(k) ==
    LET name == Marker(<<" ", SiteNames[k[2]], " ">>)
        full(d, z) == DetailPage(k, TRUE, d, name, TRUE,
                                 Marker(<<"Houghton">>), Marker(<<"MI">>), z,
                                 Marker(<<"(906) 482-0984">>))
    IN  {full(Marker(<<"National Park">>), Marker(<<"49931">>)),
         full(None, Marker(<<"49931">>)),
         full(Marker(<<"National Park">>), None)}

SiteList(sites) == [kind |-> "list", sites |-> sites]

\* A loop that leaves out the parks whose extraction fails.
RECURSIVE append_sites_skipping(_, _, _, _, _, _, _)
append_sites_skipping(parks, i, national_site_list, f, gets, outcomes, up) ==
    IF i > Len(parks) THEN Returned(SiteList(national_site_list), f, gets)
    ELSE IF parks[i] = NoAnchor
    THEN append_sites_skipping(parks, i + 1, national_site_list, f, gets, outcomes, up)
    ELSE LET url == park_url(parks[i])
             s == get_site_instance(f, TRUE, url, outcomes[url], up)
         IN  append_sites_skipping(parks, i + 1,
                 IF s.raised THEN national_site_list
                 ELSE Append(national_site_list, s.value),
                 s.file, gets + s.gets, outcomes, up)

\* Lines 220-227: the loop over the h3 elements from the i-th on.  An h3
\* without an anchor raises at line 222; an exception of get_site_instance
\* leaves the loop and the function.
RECURSIVE append_sites(_, _, _, _, _, _, _)
append_sites(parks, i, national_site_list, f, gets, outcomes, up) ==
    IF i > Len(parks) THEN Returned(SiteList(national_site_list), f, gets)
    ELSE IF parks[i] = NoAnchor THEN Raised(f, gets)
    ELSE LET url == park_url(parks[i])
             s == get_site_instance(f, TRUE, url, outcomes[url], up)
         IN  IF s.raised THEN Raised(s.file, gets + s.gets)
             ELSE append_sites(parks, i + 1, Append(national_site_list, s.value),
                               s.file, gets + s.gets, outcomes, up)

\* get_sites_for_state(state_url) run on file f; outcomes tells how the
\* network answers a GET of each URL during the call.
get_sites_for_state(f, ok, state_url, outcomes, up) ==
    LET r == make_request_with_cache(f, ok, state_url, outcomes[state_url], up)
        soup == r.value
    IN  IF r.raised THEN r
        ELSE IF ~(soup.kind = "listing" /\ soup.list_parks)
        THEN Raised(r.file, r.gets)
        ELSE append_sites(soup.parks, 1, <<>>, r.file, r.gets, outcomes, up)

InitState ==
    /\ file = EmptyDict
    /\ intact = TRUE
    /\ CACHE_DICT = EmptyDict
    /\ \E listing \in ListingPages(StateUrl) :
       \E pages \in [ParkUrls -> UNION {ParkPages(k) : k \in ParkUrls}] :
          /\ \A k \in ParkUrls : pages[k] \in ParkPages(k)
          /\ upstream = [k \in ParkUrls \cup {StateUrl} |->
                           IF k = StateUrl THEN listing ELSE pages[k]]
    /\ ret = NoCall
    /\ stored = [k \in ParkUrls \cup {StateUrl} |-> {}]
    /\ procs = NoProcs

\* A call of get_sites_for_state(state_url).  The call ends at the first GET
\* that does not serve the page, so the network's answers are all "ok" but
\* for one URL at most.
CallGetSitesForState(state_url, bad, outcome) ==
    LET outcomes == [k \in ParkUrls \cup {StateUrl} |->
                        IF k = bad THEN outcome ELSE "ok"]
        r == get_sites_for_state(file, intact, state_url, outcomes, upstream)
    IN  /\ file' = r.file
        /\ ret' = Call("get_sites_for_state", state_url, r)
        /\ intact' = (intact \/ r.file # file)
        /\ UNCHANGED <<CACHE_DICT, upstream, stored, procs>>

NextState ==
    \E bad \in ParkUrls \cup {StateUrl}, o \in Outcomes :
        CallGetSitesForState(StateUrl, bad, o)

SpecState == InitState /\ [][NextState]_vars

\* The listing the last get_sites_for_state call read, and the extraction of
\* the i-th park's detail page as the cache holds it.
Listing == file[StateUrl]
Extraction(i) ==
    get_site_instance(file, TRUE, park_url(Listing.parks[i]), "unreachable", upstream)
\* The state page and every park's page were fetched and could be extracted.
AllExtracted ==
    /\ StateUrl \in DOMAIN file
    /\ Listing.kind = "listing" /\ Listing.list_parks
    /\ \A i \in 1..Len(Listing.parks) :
          /\ Listing.parks[i] # NoAnchor
          /\ park_url(Listing.parks[i]) \in DOMAIN file
          /\ ~Extraction(i).raised

\* C8: get_sites_for_state is all-or-nothing and keeps the order: it returns
\* exactly one site per heading of the state page, the i-th being the
\* extraction of the i-th heading's detail page, when the state page and
\* every detail page were fetched and extracted; otherwise it raises and
\* returns nothing.
C8_AllOrNothingInOrder ==
    ret.op = "get_sites_for_state" =>
       /\ ret.raised <=> ~AllExtracted
       /\ ret.raised => ret.value = NoValue
       /\ ~ret.raised =>
             /\ Len(ret.value.sites) = Len(Listing.parks)
             /\ \A i \in 1..Len(Listing.parks) :
                   ret.value.sites[i] = Extraction(i).value

\* Two different sites were returned, in the order of the state page.
C8_Witness ==
    /\ ret.op = "get_sites_for_state" /\ ~ret.raised
    /\ Len(ret.value.sites) >= 2
    /\ ret.value.sites[1] # ret.value.sites[2]
    /\ ret.value.sites[1] = Extraction(1).value
    /\ \E i \in 1..Len(ret.value.sites) : ret.value.sites[i].category = <<"No category">>

\* ------------------------------------------------------------------ concurrent runs
\* Instances of the program that share nps_cache.json, each in a call of
\* make_request_with_cache, interleaved at its file operations.
Procs == 1..NumProcs

\* pc: "idle" (not in a call), "get" (before line 81), "save" (before line
\* 52), "write" (the file is open for writing, before lines 54-55).  snap:
\* the keys open_cache loaded.  clobbered: another process wrote the file
\* while this one had it open for writing.
Idle == [pc |-> "idle", baseurl |-> <<"none", 0>>, local |-> EmptyDict,
         snap |-> {}, clobbered |-> FALSE]

\* The server is reached or not; a non-2xx body is stored as a 2xx body is.
Reached == {"ok", "unreachable"}

InitConc ==
    /\ file = EmptyDict
    /\ intact = TRUE
    /\ CACHE_DICT = EmptyDict
    /\ upstream = [k \in Urls |-> Page(k, 1)]
    /\ ret = NoCall
    /\ stored = [k \in Urls |-> {}]
    /\ procs = [p \in Procs |-> Idle]

Rest == <<CACHE_DICT, upstream, ret>>

\* Process p calls make_request_with_cache(baseurl): lines 73-77, open_cache
\* and the return on a hit.
OpenCache(p, baseurl) ==
    /\ procs[p].pc = "idle"
    /\ LET local_dict == open_cache(file, intact)
       IN  procs' = IF baseurl \in DOMAIN local_dict
                    THEN procs
                    ELSE [procs EXCEPT ![p] = [Idle EXCEPT
                            !.pc = "get", !.baseurl = baseurl,
                            !.local = local_dict, !.snap = DOMAIN local_dict]]
    /\ UNCHANGED <<file, intact, stored, Rest>>

\* Line 81: the GET; its body goes into the local dict, or the call raises.
Get(p, outcome) ==
    /\ procs[p].pc = "get"
    /\ LET response == requests_get(procs[p].baseurl, outcome, upstream)
       IN  procs' = IF response.raised
                    THEN [procs EXCEPT ![p] = Idle]
                    ELSE [procs EXCEPT
                            ![p].local = Put(@, procs[p].baseurl, response.body),
                            ![p].pc = "save"]
    /\ UNCHANGED <<file, intact, stored, Rest>>

\* Lines 52-53: json.dumps, then open(CACHE_FILENAME, "w") empties the file.
SaveOpen(p) ==
    /\ procs[p].pc = "save"
    /\ procs' = [procs EXCEPT ![p].local = dumped_json_cache(@),
                              ![p].pc = "write"]
    /\ file' = EmptyDict
    /\ intact' = FALSE
    /\ UNCHANGED <<stored, Rest>>

\* Lines 54-55: the text is written from the start of the file, and the call
\* returns.  Over what another process wrote meanwhile, a shorter text leaves
\* that text's tail behind it: the file then holds no valid JSON.
SaveWrite(p, garbled) ==
    /\ procs[p].pc = "write"
    /\ garbled => procs[p].clobbered
    /\ file' = IF garbled THEN EmptyDict ELSE procs[p].local
    /\ intact' = ~garbled
    /\ stored' = Record(stored, file')
    /\ procs' = [q \in Procs |->
                   IF q = p THEN Idle
                   ELSE IF procs[q].pc = "write"
                        THEN [procs[q] EXCEPT !.clobbered = TRUE]
                        ELSE procs[q]]
    /\ UNCHANGED Rest

NextConc ==
    \/ \E p \in Procs, u \in Urls : OpenCache(p, u)
    \/ \E p \in Procs, o \in Reached : Get(p, o)
    \/ \E p \in Procs : SaveOpen(p)
    \/ \E p \in Procs, garbled \in BOOLEAN : SaveWrite(p, garbled)

SpecConc == InitConc /\ [][NextConc]_vars

\* C9: what a miss writes is the snapshot its process loaded plus its own
\* entry, whatever the file held in between: after a save the keys of the
\* file are the keys the saving process loaded and the key it fetched, so an
\* entry another instance saved after that load is lost.
C9_LastSnapshotWins ==
    [][\A p \in Procs :
          SaveWrite(p, FALSE) =>
             DOMAIN file' = procs[p].snap \cup {procs[p].baseurl}]_vars

\* Two instances missed on different keys, both loaded, then both saved and
\* returned: the file holds the last writer's entry and not the other's.
C9_Witness ==
    /\ intact
    /\ \A p \in Procs : procs[p].pc = "idle"
    /\ DOMAIN file # {}
    /\ \E k \in Urls : stored[k] # {} /\ k \notin DOMAIN file

====
